---- MODULE Spec2Model ----
(***************************************************************************)
(* A model of google-to-tg: the bot (bot.py), the picker script            *)
(* (picker_to_telegram.py) and the library export (photos_to_telegram.py). *)
(*                                                                         *)
(* Specifications:                                                         *)
(*   SpecSend   the three upload operations as functions of their input    *)
(*   SpecToken  the bot's token guard and the OAuth callback               *)
(*   Spec       one run of one of the three pipelines (export: with        *)
(*              crashes and re-runs over the same listing)                 *)
(***************************************************************************)
EXTENDS Integers, Sequences, FiniteSets, TLC

VARIABLES
    ev,         \* history: the last step of the picker run or bot job
    sendIn,     \* SpecSend: the input of the upload operation
    sendOut,    \* SpecSend: what the upload operation did with it
    now,        \* time.time(), in seconds
    users,      \* bot.db, table users: the row of the user, or NoUser
    issued,     \* number of token sets the OAuth server has issued
    tokCall,    \* history: the last call of get_access_token
    lastRT,     \* history: the refresh token of the last exchange that carried
                \* one (0 once the callback stored a token set without one)
    omitted,    \* history: consecutive refreshes whose response omitted
                \* refresh_token
    prog,       \* Spec: the program that runs ("bot", "picker", "export")
    pc,         \* where the run is
    run,        \* number of the run (the export is re-run over the same listing)
    pages,      \* the remote listing: a sequence of pages of item ids; every
                \* page but the last carries a nextPageToken
    cursor,     \* the page the pageToken in hand asks for
    buf,        \* items of the current page not yet iterated
    hasNext,    \* the current page carried a nextPageToken
    cur,        \* id of the item in the loop body, 0 outside
    content,    \* what the fetch returned: MIME type and size
    sent,       \* the counter sent / count / total_sent
    progressFile,   \* processed_ids.jsonl, a sequence of lines
    done_ids,   \* the set load_done_ids returned to this run
    status,     \* what the run told the user at its end
    yielded,    \* history: ids the enumeration has yielded in this run
    hist,       \* history: ids this run skipped, fetched, uploaded, recorded
    okUploads,  \* history: per id, uploads the messaging API confirmed
    lostMarks,  \* history: per id, confirmed uploads never recorded
    markedBefore,   \* history: ids mark_done recorded in earlier runs
    channel,    \* bot.db, table channels: the user has bound a channel
    iterToken,  \* the access token iter_picked was called with
    sess,       \* the picker session: created, pickerUri shown, mediaItems
                \* requested, 400/412 answers met
    pollSt,     \* the poll loop: polls made, responses reporting false, sleeps
                \* begun, mediaItemsSet of the last response, the sleep under way
    thr,        \* SpecRace: per thread, where its token call is, the row it
                \* read and the token set it received
    latest,     \* history: the access and refresh token of the latest
                \* successful exchange
    link_codes, \* SpecLink: bot.db, table link_codes: per code the tg_id, 0 for
                \* no row
    channels,   \* SpecLink: bot.db, table channels: per tg_id the chat_id, 0
                \* for no row
    issuedTo,   \* history: per code, the users /setchannel has shown it to
                \* since the code was last consumed
    post        \* history: the last '/link CODE' channel post and what it did

sendVars == <<sendIn, sendOut>>
tokenVars == <<now, users, issued, tokCall, lastRT, omitted>>
fixedVars == <<prog, run, pages>>
listVars == <<cursor, buf, hasNext, cur, content, yielded, hist>>
ledgerVars == <<progressFile, done_ids, lostMarks, markedBefore>>
botVars == <<channel, iterToken>>
waitVars == <<sess, pollSt>>
pipeVars == <<fixedVars, listVars, ledgerVars, botVars, waitVars, ev, pc, sent, status,
              okUploads>>
raceVars == <<thr, latest>>
linkVars == <<link_codes, channels, issuedTo, post>>
vars == <<sendVars, raceVars, linkVars, tokenVars, pipeVars>>

----------------------------------------------------------------------------
(* Values *)

\* Python's None, for a MIME type (a MIME type is a sequence of tokens).
NoneMime == <<"None">>

\* str.startswith on token sequences.
StartsWith(s, p) == Len(s) >= Len(p) /\ SubSeq(s, 1, Len(p)) = p

\* Python's `x or d` on a MIME type: None and "" are falsy.
OrElse(mime, d) == IF mime = NoneMime \/ mime = <<>> THEN d ELSE mime

IMAGE_PREFIX == <<"image", "/">>
VIDEO_PREFIX == <<"video", "/">>
IMAGE_JPEG == <<"image", "/", "jpeg">>
VIDEO_MP4 == <<"video", "/", "mp4">>
OCTET_STREAM == <<"application", "/", "octet-stream">>

\* len(content), in bytes: kib * 1024 + rem with rem < 1024 (2 GiB does not
\* fit the checker's 32-bit integers).
Size(k, r) == [kib |-> k, rem |-> r]
SizeLE(a, b) == a.kib < b.kib \/ (a.kib = b.kib /\ a.rem <= b.rem)
SizeGT(a, b) == ~SizeLE(a, b)

PHOTO_MAX == Size(10 * 1024, 0)
FILE_MAX == Size(2 * 1024 * 1024, 0)

Mimes ==
    { IMAGE_JPEG, <<"image", "/", "heic">>, VIDEO_MP4,
      <<"application", "/", "pdf">>, <<"image">>, <<>>, NoneMime }

Sizes ==
    { Size(0, 0), Size(3 * 1024, 0),
      Size(PHOTO_MAX.kib - 1, 1023), PHOTO_MAX, Size(PHOTO_MAX.kib, 1),
      Size(FILE_MAX.kib - 1, 1023), FILE_MAX, Size(FILE_MAX.kib, 1) }

\* A response of the messaging API: HTTP status, whether the content type is
\* application/json, and the body's "ok".
TgResponses ==
    { [status |-> 200, json |-> TRUE, ok |-> TRUE],
      [status |-> 200, json |-> TRUE, ok |-> FALSE],
      [status |-> 200, json |-> FALSE, ok |-> FALSE],
      [status |-> 413, json |-> TRUE, ok |-> FALSE],
      [status |-> 502, json |-> FALSE, ok |-> FALSE] }

\* A multipart request to the messaging API.
Request(method, field, ctype, size) ==
    [method |-> method, field |-> field, ctype |-> ctype, size |-> size]

\* What an upload operation did: the requests it sent and how it ended
\* ("ok", or the error it raised).
Result(reqs, outcome) == [requests |-> reqs, outcome |-> outcome]

NoInput == [prog |-> "none"]
NoResult == Result(<<>>, "none")

----------------------------------------------------------------------------
(* bot.py *)

\* tg_send: raises unless the status is 200 and the JSON body says ok.
tg_send_ok(resp) == resp.status = 200 /\ (resp.json /\ resp.ok)

\* A classifier that sends a video as a video only when it is small.
send_media_auto_small_video(mime, size, resp) ==
    IF SizeGT(size, FILE_MAX)
    THEN Result(<<>>, "PayloadTooLarge")
    ELSE LET m == OrElse(mime, <<>>)
             req == IF StartsWith(m, IMAGE_PREFIX) /\ SizeLE(size, PHOTO_MAX)
                    THEN Request("sendPhoto", "photo", OrElse(mime, IMAGE_JPEG), size)
                    ELSE IF StartsWith(m, VIDEO_PREFIX) /\ SizeLE(size, PHOTO_MAX)
                    THEN Request("sendVideo", "video", OrElse(mime, VIDEO_MP4), size)
                    ELSE Request("sendDocument", "document", OrElse(mime, OCTET_STREAM), size)
         IN Result(<<req>>, IF tg_send_ok(resp) THEN "ok" ELSE "DeliveryError")

\* send_media_auto, lines 164-175: the size check, then the decision table.
send_media_auto(mime, size, resp) ==
    IF SizeGT(size, FILE_MAX)
    THEN Result(<<>>, "PayloadTooLarge")
    ELSE LET m == OrElse(mime, <<>>)
             req == IF StartsWith(m, IMAGE_PREFIX) /\ SizeLE(size, PHOTO_MAX)
                    THEN Request("sendPhoto", "photo", OrElse(mime, IMAGE_JPEG), size)
                    ELSE IF StartsWith(m, VIDEO_PREFIX)
                    THEN Request("sendVideo", "video", OrElse(mime, VIDEO_MP4), size)
                    ELSE Request("sendDocument", "document", OrElse(mime, OCTET_STREAM), size)
         IN Result(<<req>>, IF tg_send_ok(resp) THEN "ok" ELSE "DeliveryError")

----------------------------------------------------------------------------
(* The remote listing and the state of a run *)

MaxItems == 2       \* items of a listing
MaxPages == 2       \* pages of a listing
MaxRuns == 2        \* runs of the export over the same listing
MaxPolls == 2       \* polls that find the session not ready

Ids == 1..MaxItems

\* The listings of m items with distinct ids, served as n pages, some of
\* them possibly empty: page i holds the items c[i]+1 .. c[i+1].
Cuts(m, n) ==
    { c \in [1..(n + 1) -> 0..m] :
        c[1] = 0 /\ c[n + 1] = m /\ \A i \in 1..n : c[i] <= c[i + 1] }

Listings ==
    UNION { { [i \in 1..n |-> [j \in 1..(c[i + 1] - c[i]) |-> c[i] + j]] : c \in Cuts(m, n) } :
            m \in 0..MaxItems, n \in 1..MaxPages }

RECURSIVE Flatten(_)
Flatten(pp) == IF pp = <<>> THEN <<>> ELSE Head(pp) \o Flatten(Tail(pp))

Range(f) == { f[i] : i \in DOMAIN f }

\* What a media item and its download can be.
PipeMimes == { IMAGE_JPEG, <<>>, NoneMime }
PipeSizes == { Size(3 * 1024, 0), Size(FILE_MAX.kib, 1) }

NoContent == [mime |-> <<>>, size |-> Size(0, 0), fetched |-> FALSE]
Content(mime, size) == [mime |-> mime, size |-> size, fetched |-> TRUE]

NoHist ==
    [skipped |-> {}, fetch |-> {}, upload |-> {}, confirmed |-> {}, mark |-> {},
     failed |-> {}]

\* The history after the fetch or the upload of item i failed.
Failed(h, i) == [h EXCEPT !.failed = @ \cup {i}]

\* The messaging API confirmed the upload: a request was sent and answered
\* 200 with a JSON body saying ok.
Confirmed(r, resp) ==
    r.requests # <<>> /\ resp.status = 200 /\ resp.json /\ resp.ok

\* The history after an upload of item i that ended as r on response resp.
Uploaded(h, i, r, resp) ==
    [h EXCEPT !.upload = @ \cup {i},
              !.confirmed = @ \cup (IF Confirmed(r, resp) THEN {i} ELSE {})]

NoSession == [created |-> FALSE, uriShown |-> FALSE, listed |-> FALSE]
NoPolls == [polls |-> 0, falses |-> 0, sleeps |-> 0, ready |-> FALSE, sleepFor |-> 0]

\* A step of a picker run or bot job: the operation, how it ended ("ok" or
\* the error), whether it sent its request to the picker API, whether that
\* request carried a stale access token, and what the server answered
\* (the pollInterval of a poll, the status code of a page request).
Event(op, cause, request, stale, arg) ==
    [op |-> op, cause |-> cause, request |-> request, stale |-> stale, arg |-> arg]

NoEvent == Event("none", "ok", FALSE, FALSE, 0)

\* No run has started.
PipeIdle ==
    /\ prog = "none"
    /\ pc = "idle"
    /\ run = 0
    /\ pages = <<>>
    /\ cursor = 0
    /\ buf = <<>>
    /\ hasNext = FALSE
    /\ cur = 0
    /\ content = NoContent
    /\ sent = 0
    /\ progressFile = <<>>
    /\ done_ids = {}
    /\ status = "none"
    /\ yielded = <<>>
    /\ hist = NoHist
    /\ okUploads = [i \in Ids |-> 0]
    /\ lostMarks = [i \in Ids |-> 0]
    /\ markedBefore = {}
    /\ channel = FALSE
    /\ iterToken = 0
    /\ sess = NoSession
    /\ pollSt = NoPolls
    /\ ev = NoEvent

----------------------------------------------------------------------------
(* bot.py: credentials *)

MaxTicks == 2       \* time passes at most this many times
MaxIssue == 3       \* the OAuth server issues at most this many token sets

MARGIN == 60                \* save_tokens: safety margin, seconds
EXPIRES_DEFAULT == 3600     \* save_tokens: expires_in when the response has none

TgIds == {1}
Emails == {"None", "user@example.com"}

\* A row of table users. Tokens are numbers, 0 is None.
Row(tg_id, email, access_token, refresh_token, token_type, expiry) ==
    [tg_id |-> tg_id, email |-> email, access_token |-> access_token,
     refresh_token |-> refresh_token, token_type |-> token_type, expiry |-> expiry]

NoUser == [tg_id |-> 0]

\* The JSON body of a token exchange: a dict whose keys may be missing.
Token(http_ok, access_token, has_refresh, refresh_token, has_expires, expires_in) ==
    [http_ok |-> http_ok, access_token |-> access_token,
     has_refresh |-> has_refresh, refresh_token |-> refresh_token,
     has_expires |-> has_expires, expires_in |-> expires_in,
     token_type |-> IF http_ok THEN "Bearer" ELSE "None"]

HTTPFailure == Token(FALSE, 0, FALSE, 0, FALSE, 0)

ExpiresIns == {MARGIN, 2 * MARGIN}

\* What the OAuth server may answer to an exchange when it has issued `iss`
\* token sets: a failure, or token set iss + 1 (whose access_token,
\* refresh_token and expires_in keys may be missing).
TokenResponses(iss) ==
    {HTTPFailure} \cup
    IF iss >= MaxIssue THEN {}
    ELSE { Token(TRUE, a, hr, IF hr THEN iss + 1 ELSE 0, he, IF he THEN e ELSE 0) :
             a \in {0, iss + 1}, hr \in BOOLEAN, he \in BOOLEAN, e \in ExpiresIns }

\* A refresh that takes the response as it is.
setdefault_dropped(token, rt) == token

\* dict.setdefault("refresh_token", rt)
setdefault_refresh_token(token, rt) ==
    IF token.has_refresh THEN token
    ELSE [token EXCEPT !.has_refresh = TRUE, !.refresh_token = rt]

\* save_tokens: the row INSERT OR REPLACE writes at time t.
save_tokens(tg_id, token, email, t) ==
    Row(tg_id, email, token.access_token,
        IF token.has_refresh THEN token.refresh_token ELSE 0,
        token.token_type,
        t + (IF token.has_expires THEN token.expires_in ELSE EXPIRES_DEFAULT) - MARGIN)

\* The result of a call of get_access_token: how it ended, the token it
\* returned, whether it sent a refresh exchange, the refresh token it sent,
\* and the row it saved (NoUser when it saved none).
GuardResult(outcome, ret, refreshed, sentRT, saved) ==
    [outcome |-> outcome, ret |-> ret, refreshed |-> refreshed,
     sentRT |-> sentRT, saved |-> saved]

\* A guard that takes a token for valid at its expiry.
token_valid_inclusive(u, t) == t <= u.expiry /\ u.access_token # 0

\* get_access_token, line 139: the stored token is still valid at time t.
token_valid(u, t) == t < u.expiry /\ u.access_token # 0

\* get_access_token(u) at time t, when the server answers a refresh with resp.
get_access_token(u, t, resp) ==
    IF u = NoUser
    THEN GuardResult("AttributeError", 0, FALSE, 0, NoUser)
    ELSE IF token_valid(u, t)
    THEN GuardResult("return", u.access_token, FALSE, 0, NoUser)
    ELSE IF u.refresh_token # 0
    THEN IF ~resp.http_ok
         THEN GuardResult("HTTPError", 0, TRUE, u.refresh_token, NoUser)
         ELSE LET tk == setdefault_refresh_token(resp, u.refresh_token)
                  row == save_tokens(u.tg_id, tk, u.email, t)
              IN IF resp.access_token = 0
                 THEN GuardResult("KeyError", 0, TRUE, u.refresh_token, row)
                 ELSE GuardResult("return", resp.access_token, TRUE, u.refresh_token, row)
    ELSE GuardResult("AuthRequired", 0, FALSE, 0, NoUser)

\* Whether get_access_token(u) at time t sends a refresh exchange.
Refreshes(u, t) ==
    u # NoUser /\ ~token_valid(u, t) /\ u.refresh_token # 0

\* The server's answers a call of get_access_token(u) can meet.
GuardResponses(u, t, iss) ==
    IF Refreshes(u, t) THEN TokenResponses(iss) ELSE {HTTPFailure}

NoCall == [outcome |-> "none"]

\* What a call of get_access_token leaves in table users and at the server.
GuardStore(u, resp, g) ==
    /\ users' = IF g.saved # NoUser THEN g.saved ELSE users
    /\ issued' = IF g.refreshed /\ resp.http_ok THEN issued + 1 ELSE issued
    /\ lastRT' = IF g.saved # NoUser /\ resp.has_refresh THEN resp.refresh_token ELSE lastRT
    /\ omitted' = IF g.saved = NoUser THEN omitted
                  ELSE IF resp.has_refresh THEN 0 ELSE omitted + 1

\* The effect of a call of get_access_token on the credential state, with a
\* record of the call.
GuardEffect(u, resp, g) ==
    /\ tokCall' = [u |-> u, at |-> now, resp |-> resp, outcome |-> g.outcome,
                   ret |-> g.ret, refreshed |-> g.refreshed, sentRT |-> g.sentRT,
                   saved |-> g.saved, issuedBefore |-> issued]
    /\ GuardStore(u, resp, g)

\* oauth_cb: the OAuth callback exchanges the code and saves the token set.
oauth_cb ==
    \E params \in {"error", "missing", "ok"}, token \in TokenResponses(issued),
       email \in Emails, tg_id \in TgIds :
        /\ IF params = "ok" /\ token.http_ok
           THEN /\ issued' = issued + 1
                /\ IF token.access_token # 0
                   THEN /\ users' = save_tokens(tg_id, token, email, now)
                        /\ lastRT' = (IF token.has_refresh THEN token.refresh_token ELSE 0)
                        /\ omitted' = 0
                   ELSE UNCHANGED <<users, lastRT, omitted>>
           ELSE /\ token = HTTPFailure
                /\ email = "None"
                /\ UNCHANGED <<users, issued, lastRT, omitted>>
        /\ UNCHANGED <<now, tokCall, sendVars, linkVars, raceVars, pipeVars>>

\* get_access_token(get_user(tg_id)), as picker_cmd and the worker call it.
TokenGuardCall ==
    /\ users # NoUser
    /\ \E resp \in GuardResponses(users, now, issued) :
          GuardEffect(users, resp, get_access_token(users, now, resp))
    /\ UNCHANGED <<now, sendVars, linkVars, raceVars, pipeVars>>

\* Time passes.
Tick ==
    /\ now < MaxTicks * MARGIN
    /\ now' = now + MARGIN
    /\ UNCHANGED <<users, issued, tokCall, lastRT, omitted, sendVars, linkVars, raceVars, pipeVars>>

\* The threads of the bot that touch table users for one user: two worker
\* threads (two /picker jobs) and the API thread that serves oauth_cb.
Workers == {"w1", "w2"}
Threads == Workers \cup {"cb"}

\* A thread: where it is in its token call, the row (or tg_id and email) it
\* holds, and the token set it received.
Thread(at, u, tk) == [at |-> at, u |-> u, tk |-> tk]

Idle == [at |-> "idle"]

\* The tokens of the latest successful exchange.
Exchange(access_token, refresh_token) ==
    [access_token |-> access_token, refresh_token |-> refresh_token]

NoExchange == Exchange(0, 0)

RaceIdle ==
    /\ thr = [p \in Threads |-> Idle]
    /\ latest = NoExchange

\* The users who talk to the bot, and the channels the bot is a member of.
LinkUsers == {1, 2}
Chats == {101, 102}

CODE_DIGITS == 1000000      \* setchannel_cmd: the code is the last 6 digits

\* setchannel_cmd, line 274: str(int(time.time()))[-6:].
link_code(t) == t % CODE_DIGITS

\* A code nobody was given.
UnknownCode == CODE_DIGITS - 1

\* The codes a '/link CODE' post can carry.
LinkCodes ==
    { link_code(k * MARGIN) : k \in 0..MaxTicks } \cup {UnknownCode}

\* A '/link CODE' post in channel chat: the code, the channel, the user the
\* channel was bound to (0 for none) and the users the code had been shown to.
Post(code, chat, bound, shown) ==
    [code |-> code, chat |-> chat, bound |-> bound, shown |-> shown]

NoPost == Post(0, 0, 0, {})

LinkIdle ==
    /\ link_codes = [c \in LinkCodes |-> 0]
    /\ channels = [u \in LinkUsers |-> 0]
    /\ issuedTo = [c \in LinkCodes |-> {}]
    /\ post = NoPost

TokenIdle ==
    /\ now = 0
    /\ users = NoUser
    /\ issued = 0
    /\ tokCall = NoCall
    /\ lastRT = 0
    /\ omitted = 0

InitToken ==
    /\ TokenIdle
    /\ PipeIdle
    /\ sendIn = NoInput
    /\ sendOut = NoResult
    /\ RaceIdle
    /\ LinkIdle

NextToken == oauth_cb \/ TokenGuardCall \/ Tick

SpecToken == InitToken /\ [][NextToken]_vars

----------------------------------------------------------------------------
(* bot.py: token calls of several threads *)

\* The answers of the OAuth server the threads meet: a failure, or a token
\* set with an access token and expires_in; a refresh may omit refresh_token.
RaceResponses(iss) ==
    { x \in TokenResponses(iss) : ~x.http_ok \/ (x.access_token # 0 /\ x.has_expires) }

\* The server's answer to an authorization code: oauth_url asks for
\* access_type offline and prompt consent, so it carries a refresh token.
CodeResponses(iss) == { x \in RaceResponses(iss) : x.http_ok /\ x.has_refresh }

\* The tokens in force after the server answered an exchange with resp.
Exchanged(resp) ==
    Exchange(resp.access_token,
             IF resp.has_refresh THEN resp.refresh_token ELSE latest.refresh_token)

\* get_user(tg_id), lines 69-75, as the worker evaluates it for the argument
\* of get_access_token: the thread holds a copy of the row.
get_user(p) ==
    /\ thr[p].at = "idle"
    /\ users # NoUser
    /\ thr' = [thr EXCEPT ![p] = Thread("guard", users, HTTPFailure)]
    /\ UNCHANGED <<latest, tokenVars, sendVars, linkVars, pipeVars>>

\* get_access_token, lines 139-144: return the token of the copy when it is
\* valid; else exchange the refresh token of the copy and complete the
\* response with it; no refresh token, or a failed exchange, raises.
guard_exchange(p) ==
    /\ thr[p].at = "guard"
    /\ LET u == thr[p].u IN
       \E resp \in (IF Refreshes(u, now) THEN RaceResponses(issued) ELSE {HTTPFailure}) :
          LET g == get_access_token(u, now, resp) IN
          IF g.refreshed /\ resp.http_ok
          THEN /\ thr' = [thr EXCEPT ![p] =
                             Thread("save", u, setdefault_refresh_token(resp, u.refresh_token))]
               /\ issued' = issued + 1
               /\ latest' = Exchanged(resp)
          ELSE /\ thr' = [thr EXCEPT ![p] = Idle]
               /\ UNCHANGED <<issued, latest>>
    /\ UNCHANGED <<now, users, tokCall, lastRT, omitted, sendVars, linkVars, pipeVars>>

\* get_access_token, lines 145-146: save_tokens writes the completed token
\* set, and the call returns.
guard_save(p) ==
    /\ thr[p].at = "save"
    /\ users' = save_tokens(thr[p].u.tg_id, thr[p].tk, thr[p].u.email, now)
    /\ thr' = [thr EXCEPT ![p] = Idle]
    /\ UNCHANGED <<latest, now, issued, tokCall, lastRT, omitted, sendVars, linkVars, pipeVars>>

\* oauth_cb, lines 229-235: exchange the code, then ask for the email.
cb_exchange ==
    /\ thr["cb"].at = "idle"
    /\ \E token \in CodeResponses(issued), email \in Emails, tg_id \in TgIds :
          /\ thr' = [thr EXCEPT !["cb"] =
                        Thread("save", [tg_id |-> tg_id, email |-> email], token)]
          /\ latest' = Exchanged(token)
    /\ issued' = issued + 1
    /\ UNCHANGED <<now, users, tokCall, lastRT, omitted, sendVars, linkVars, pipeVars>>

\* oauth_cb, line 237: save_tokens(tg_id, token, email).
cb_save ==
    /\ thr["cb"].at = "save"
    /\ users' = save_tokens(thr["cb"].u.tg_id, thr["cb"].tk, thr["cb"].u.email, now)
    /\ thr' = [thr EXCEPT !["cb"] = Idle]
    /\ UNCHANGED <<latest, now, issued, tokCall, lastRT, omitted, sendVars, linkVars, pipeVars>>

\* The user has connected: the row holds the first token set, which has
\* just expired.
InitRace ==
    /\ now = 0
    /\ users = save_tokens(1, Token(TRUE, 1, TRUE, 1, TRUE, MARGIN), "user@example.com", 0)
    /\ issued = 1
    /\ tokCall = NoCall
    /\ lastRT = 1
    /\ omitted = 0
    /\ thr = [p \in Threads |-> Idle]
    /\ latest = Exchange(1, 1)
    /\ LinkIdle
    /\ PipeIdle
    /\ sendIn = NoInput
    /\ sendOut = NoResult

NextRace ==
    \/ \E p \in Workers : get_user(p) \/ guard_exchange(p) \/ guard_save(p)
    \/ cb_exchange
    \/ cb_save
    \/ Tick

SpecRace == InitRace /\ [][NextRace]_vars

----------------------------------------------------------------------------
(* bot.py: linking a channel *)

\* setchannel_cmd, lines 273-281: derive the code from the clock, store it
\* for the user (INSERT OR REPLACE on the code), show it to the user.
setchannel_cmd(tg_id) ==
    LET code == link_code(now) IN
    /\ link_codes' = [link_codes EXCEPT ![code] = tg_id]
    /\ issuedTo' = [issuedTo EXCEPT ![code] = @ \cup {tg_id}]
    /\ UNCHANGED <<channels, post, sendVars, raceVars, tokenVars, pipeVars>>

\* pop_link_code, lines 94-102: the tg_id of the code's row, which is deleted;
\* None (0) when there is no row.
pop_link_code(codes, code) ==
    [ret |-> codes[code], codes |-> [codes EXCEPT ![code] = 0]]

\* on_channel_post, lines 291-305: a post '/link CODE' in channel chat.
on_channel_post(code, chat) ==
    LET p == pop_link_code(link_codes, code) IN
    /\ link_codes' = p.codes
    /\ channels' = IF p.ret # 0 THEN [channels EXCEPT ![p.ret] = chat] ELSE channels
    /\ post' = Post(code, chat, p.ret, issuedTo[code])
    /\ issuedTo' = [issuedTo EXCEPT ![code] = {}]
    /\ UNCHANGED <<sendVars, raceVars, tokenVars, pipeVars>>

InitLink ==
    /\ TokenIdle
    /\ PipeIdle
    /\ sendIn = NoInput
    /\ sendOut = NoResult
    /\ RaceIdle
    /\ LinkIdle

NextLink ==
    \/ \E tg_id \in LinkUsers : setchannel_cmd(tg_id)
    \/ \E code \in LinkCodes, chat \in Chats : on_channel_post(code, chat)
    \/ Tick

SpecLink == InitLink /\ [][NextLink]_vars

----------------------------------------------------------------------------
(* picker_to_telegram.py *)

\* tg_send of the picker script: resp.json() raises on a body that is not
\* JSON; mime.startswith raises on None.
picker_tg_send(mime, size, resp) ==
    IF mime = NoneMime
    THEN Result(<<>>, "AttributeError")
    ELSE LET req == IF StartsWith(mime, IMAGE_PREFIX)
                    THEN Request("sendPhoto", "photo", OrElse(mime, IMAGE_JPEG), size)
                    ELSE IF StartsWith(mime, VIDEO_PREFIX)
                    THEN Request("sendVideo", "video", OrElse(mime, VIDEO_MP4), size)
                    ELSE Request("sendDocument", "document", OrElse(mime, OCTET_STREAM), size)
         IN Result(<<req>>,
                   IF ~resp.json THEN "JSONDecodeError"
                   ELSE IF resp.status # 200 \/ ~resp.ok THEN "DeliveryError"
                   ELSE "ok")

----------------------------------------------------------------------------
(* photos_to_telegram.py *)

\* An upload that takes a 200 for a success whatever the body says.
send_to_telegram_lax(mime, size, resp) ==
    IF mime = NoneMime
    THEN Result(<<>>, "AttributeError")
    ELSE Result(<<Request("sendDocument", "document", mime, size)>>,
                IF resp.status # 200 THEN "DeliveryError" ELSE "ok")

send_to_telegram(mime, size, resp) ==
    IF mime = NoneMime
    THEN Result(<<>>, "AttributeError")
    ELSE LET req == IF StartsWith(mime, IMAGE_PREFIX)
                    THEN Request("sendPhoto", "photo", mime, size)
                    ELSE IF StartsWith(mime, VIDEO_PREFIX)
                    THEN Request("sendVideo", "video", mime, size)
                    ELSE Request("sendDocument", "document", OrElse(mime, OCTET_STREAM), size)
             j_ok == resp.json /\ resp.ok
         IN Result(<<req>>,
                   IF resp.status # 200 \/ ~j_ok THEN "DeliveryError" ELSE "ok")

----------------------------------------------------------------------------
(* photos_to_telegram.py: the progress ledger *)

\* A line of processed_ids.jsonl: the id it was written for, what its text
\* is as JSON ("object": one complete object {"id": val}; "prefix": the
\* beginning of one, left by a write that was cut short; "garbage": anything
\* else), and whether it ends with a newline.
Line(val, json, newline) == [val |-> val, json |-> json, newline |-> newline]

\* json.dumps({"id": item_id}) + "\n"
JsonLine(item_id) == Line(item_id, "object", TRUE)

\* json.loads(line)["id"] succeeds on one complete object, with or without
\* the newline after it.
LineParses(line) == line.json = "object"

\* A run that starts from an empty done set.
load_done_ids_none(file) == {}

load_done_ids(file) ==
    { file[i].val : i \in { k \in DOMAIN file : LineParses(file[k]) } }

\* The file ends in the middle of a line.
Unterminated(file) == file # <<>> /\ ~file[Len(file)].newline

\* open(PROGRESS_FILE, "a") and write: the text goes after the last byte of
\* the file, so after an unterminated line it continues that line, and the
\* line is no JSON object any more.
mark_done(file, item_id) ==
    IF Unterminated(file)
    THEN [file EXCEPT ![Len(file)] = Line(0, "garbage", TRUE)]
    ELSE Append(file, JsonLine(item_id))

\* The write of mark_done cut short by the death of the process: the object
\* is incomplete, or complete without its newline.
torn_mark_done(file, item_id, json) ==
    IF Unterminated(file)
    THEN [file EXCEPT ![Len(file)] = Line(0, "garbage", FALSE)]
    ELSE Append(file, Line(item_id, json, FALSE))

\* The ids whose record an append to the file makes unreadable, the id it
\* is called for left aside: the id of an unterminated complete object.
Overwritten(file) ==
    IF Unterminated(file) /\ LineParses(file[Len(file)])
    THEN {file[Len(file)].val} ELSE {}

\* Number of lines of the ledger that record item_id.
Lines(file, item_id) ==
    Cardinality({ k \in DOMAIN file : LineParses(file[k]) /\ file[k].val = item_id })

----------------------------------------------------------------------------
(* photos_to_telegram.py: main *)

\* The for loop of main reaches its next iteration: items whose id is in
\* done_ids are passed over (continue); the first other item enters the try
\* block. After the last item of the page main asks for the next page, or
\* leaves the while loop when the page carried no nextPageToken.
RECURSIVE PhotosSkip(_, _, _)
PhotosSkip(b, done, acc) ==
    IF b = <<>> THEN [cur |-> 0, buf |-> <<>>, passed |-> acc]
    ELSE IF Head(b) \in done THEN PhotosSkip(Tail(b), done, Append(acc, Head(b)))
    ELSE [cur |-> Head(b), buf |-> Tail(b), passed |-> Append(acc, Head(b))]

PhotosLoop(b, more, done, h) ==
    LET n == PhotosSkip(b, done, <<>>) IN
    /\ cur' = n.cur
    /\ buf' = n.buf
    /\ yielded' = yielded \o n.passed
    /\ hist' = [h EXCEPT !.skipped = @ \cup (Range(n.passed) \cap done)]
    /\ content' = NoContent
    /\ IF n.cur # 0 THEN /\ pc' = "fetch"
                         /\ UNCHANGED cursor
       ELSE IF more THEN /\ pc' = "page"
                         /\ cursor' = cursor + 1
       ELSE /\ pc' = "final"
            /\ UNCHANGED cursor

\* main, lines 105-110: load the ledger, start at the first page.
photos_start ==
    /\ prog = "export" /\ pc = "start"
    /\ done_ids' = load_done_ids(progressFile)
    /\ pc' = "page"
    /\ cursor' = 1
    /\ sent' = 0
    /\ UNCHANGED <<buf, hasNext, cur, content, yielded, hist, progressFile, lostMarks,
                   markedBefore, status, okUploads>>
    /\ UNCHANGED <<fixedVars, botVars, waitVars, ev, sendVars, linkVars, raceVars, tokenVars>>

\* main, lines 114-131 and 150-152: list one page.
photos_list_page ==
    /\ prog = "export" /\ pc = "page"
    /\ \E http \in {"ok", "403", "error"} :
         IF http # "ok"
         THEN /\ pc' = "aborted"
              /\ status' = (IF http = "403" THEN "SystemExit" ELSE "exception")
              /\ UNCHANGED <<cursor, buf, hasNext, cur, content, yielded, hist>>
         ELSE LET items == pages[cursor]
                  more == cursor < Len(pages)
              IN /\ hasNext' = more
                 /\ UNCHANGED status
                 /\ IF items = <<>>
                    THEN /\ pc' = "final"
                         /\ UNCHANGED <<cursor, buf, cur, content, yielded, hist>>
                    ELSE PhotosLoop(items, more, done_ids, hist)
    /\ UNCHANGED <<sent, ledgerVars, okUploads>>
    /\ UNCHANGED <<fixedVars, botVars, waitVars, ev, sendVars, linkVars, raceVars, tokenVars>>

\* main, line 137: download_bytes; on an exception the except clause prints
\* and the loop goes on.
photos_download ==
    /\ prog = "export" /\ pc = "fetch"
    /\ \E baseUrl \in BOOLEAN, mime \in PipeMimes, size \in PipeSizes, http_ok \in BOOLEAN :
         IF baseUrl /\ mime # NoneMime /\ http_ok
         THEN /\ content' = Content(mime, size)
              /\ pc' = "upload"
              /\ hist' = [hist EXCEPT !.fetch = @ \cup {cur}]
              /\ UNCHANGED <<cursor, buf, cur, yielded>>
         ELSE /\ size = Size(3 * 1024, 0)
              /\ PhotosLoop(buf, hasNext, done_ids,
                            Failed([hist EXCEPT !.fetch = @ \cup {cur}], cur))
    /\ UNCHANGED <<hasNext, sent, ledgerVars, status, okUploads>>
    /\ UNCHANGED <<fixedVars, botVars, waitVars, ev, sendVars, linkVars, raceVars, tokenVars>>

\* main, line 142: send_to_telegram.
photos_send ==
    /\ prog = "export" /\ pc = "upload"
    /\ \E resp \in TgResponses :
         LET r == send_to_telegram(content.mime, content.size, resp) IN
         /\ okUploads' = [okUploads EXCEPT ![cur] = @ + (IF Confirmed(r, resp) THEN 1 ELSE 0)]
         /\ IF r.outcome = "ok"
            THEN /\ pc' = "record"
                 /\ hist' = Uploaded(hist, cur, r, resp)
                 /\ UNCHANGED <<cursor, buf, cur, content, yielded>>
            ELSE PhotosLoop(buf, hasNext, done_ids,
                            Failed(Uploaded(hist, cur, r, resp), cur))
    /\ UNCHANGED <<hasNext, sent, ledgerVars, status>>
    /\ UNCHANGED <<fixedVars, botVars, waitVars, ev, sendVars, linkVars, raceVars, tokenVars>>

\* main, lines 143-146: mark_done, then the counter. An error of the append
\* is caught by the except clause like any other.
photos_mark ==
    /\ prog = "export" /\ pc = "record"
    /\ \E io_ok \in BOOLEAN :
         /\ IF io_ok
            THEN /\ progressFile' = mark_done(progressFile, cur)
                 /\ sent' = sent + 1
                 /\ lostMarks' = [i \in Ids |->
                        lostMarks[i]
                        + (IF i = cur /\ Unterminated(progressFile) THEN 1 ELSE 0)
                        + (IF i \in Overwritten(progressFile) THEN 1 ELSE 0)]
            ELSE /\ lostMarks' = [lostMarks EXCEPT ![cur] = @ + 1]
                 /\ UNCHANGED <<progressFile, sent>>
         /\ PhotosLoop(buf, hasNext, done_ids,
                       [hist EXCEPT !.mark = @ \cup (IF io_ok THEN {cur} ELSE {})])
    /\ UNCHANGED <<hasNext, done_ids, status, okUploads, markedBefore>>
    /\ UNCHANGED <<fixedVars, botVars, waitVars, ev, sendVars, linkVars, raceVars, tokenVars>>

\* main, line 154: the final tally.
photos_finish ==
    /\ prog = "export" /\ pc = "final"
    /\ pc' = "done"
    /\ status' = "tally"
    /\ UNCHANGED <<listVars, ledgerVars, sent, okUploads>>
    /\ UNCHANGED <<fixedVars, botVars, waitVars, ev, sendVars, linkVars, raceVars, tokenVars>>

\* The process is killed, and what it held in memory is gone. An upload that
\* was confirmed and not yet recorded stays unrecorded, or the write of its
\* record is cut short.
Crash ==
    /\ prog = "export" /\ pc \in {"start", "page", "fetch", "upload", "record", "final"}
    /\ pc' = "dead"
    /\ status' = "killed"
    /\ \E written \in {"nothing", "prefix", "object"} :
         /\ written # "nothing" => pc = "record"
         /\ progressFile' = (IF written = "nothing" THEN progressFile
                             ELSE torn_mark_done(progressFile, cur, written))
         /\ lostMarks' = [i \in Ids |->
                lostMarks[i]
                + (IF pc = "record" /\ i = cur
                      /\ ~(written = "object" /\ ~Unterminated(progressFile))
                   THEN 1 ELSE 0)
                + (IF written # "nothing" /\ i \in Overwritten(progressFile) THEN 1 ELSE 0)]
    /\ cursor' = 0 /\ buf' = <<>> /\ hasNext' = FALSE /\ cur' = 0
    /\ content' = NoContent /\ sent' = 0 /\ done_ids' = {}
    /\ UNCHANGED <<yielded, hist, markedBefore, okUploads>>
    /\ UNCHANGED <<fixedVars, botVars, waitVars, ev, sendVars, linkVars, raceVars, tokenVars>>

\* The export is started again, over the same listing and the same ledger.
Rerun ==
    /\ prog = "export" /\ pc \in {"done", "aborted", "dead"}
    /\ run < MaxRuns
    /\ run' = run + 1
    /\ pc' = "start"
    /\ markedBefore' = markedBefore \cup hist.mark
    /\ cursor' = 0 /\ buf' = <<>> /\ hasNext' = FALSE /\ cur' = 0
    /\ content' = NoContent /\ sent' = 0 /\ done_ids' = {}
    /\ status' = "none" /\ yielded' = <<>> /\ hist' = NoHist
    /\ UNCHANGED <<prog, pages, progressFile, okUploads, lostMarks>>
    /\ UNCHANGED <<botVars, waitVars, ev, sendVars, linkVars, raceVars, tokenVars>>

InitExport ==
    /\ prog = "export"
    /\ pc = "start"
    /\ run = 1
    /\ pages \in Listings
    /\ cursor = 0
    /\ buf = <<>>
    /\ hasNext = FALSE
    /\ cur = 0
    /\ content = NoContent
    /\ sent = 0
    /\ progressFile = <<>>
    /\ done_ids = {}
    /\ status = "none"
    /\ yielded = <<>>
    /\ hist = NoHist
    /\ okUploads = [i \in Ids |-> 0]
    /\ lostMarks = [i \in Ids |-> 0]
    /\ markedBefore = {}
    /\ channel = FALSE
    /\ iterToken = 0
    /\ sess = NoSession
    /\ pollSt = NoPolls
    /\ ev = NoEvent

NextExport ==
    \/ photos_start
    \/ photos_list_page
    \/ photos_download
    \/ photos_send
    \/ photos_mark
    \/ photos_finish
    \/ Crash
    \/ Rerun

----------------------------------------------------------------------------
(* picker_to_telegram.py: main *)

DEFAULT_POLL == 3   \* seconds between polls when the server suggests none
MIN_POLL == 2       \* the shortest sleep between polls

\* pollingConfig.pollInterval of a session: missing, a number, or a string
\* that is no integer literal ("5s").
PollIntervals ==
    { [kind |-> "absent", v |-> 0], [kind |-> "int", v |-> 1],
      [kind |-> "int", v |-> 5], [kind |-> "duration", v |-> 5] }

Max(a, b) == IF a >= b THEN a ELSE b

\* main, lines 104-107: the seconds to sleep after a poll.
picker_poll_sleep(x) ==
    LET poll == IF x.kind = "absent" THEN DEFAULT_POLL ELSE x
        parsed == IF x.kind = "absent" THEN DEFAULT_POLL
                  ELSE IF poll.kind = "int" THEN poll.v
                  ELSE DEFAULT_POLL
    IN Max(MIN_POLL, parsed)

\* A poll loop that goes on to the listing whatever the session reports.
poll_done_always(mediaItemsSet) == TRUE

\* `if st.get("mediaItemsSet"): break`
poll_done(mediaItemsSet) == mediaItemsSet

\* A bug that retries on 412 only.
transient_412_only(code) == code = 412

\* list_picked line 46, iter_picked line 198: the answers that are retried.
transient(code) == code \in {400, 412}

\* A loop that goes back to an item once after its fetch or upload failed.
NextItemAgain(b, more, h) ==
    /\ hist' = h
    /\ content' = NoContent
    /\ IF cur # 0 /\ cur \in h.failed /\ cur \notin hist.failed
       THEN /\ pc' = "fetch"
            /\ UNCHANGED <<cur, buf, yielded, cursor>>
       ELSE IF b # <<>>
       THEN /\ cur' = Head(b)
            /\ buf' = Tail(b)
            /\ yielded' = Append(yielded, Head(b))
            /\ pc' = "fetch"
            /\ UNCHANGED cursor
       ELSE /\ cur' = 0
            /\ buf' = <<>>
            /\ UNCHANGED yielded
            /\ IF more THEN /\ pc' = "page"
                            /\ cursor' = cursor + 1
               ELSE /\ pc' = "final"
                    /\ UNCHANGED cursor

\* list_picked / iter_picked: the generator is asked for its next item. It
\* yields the next item of the page in hand; when the page is used up it
\* requests the page after it, or ends when the page carried no
\* nextPageToken.
NextItem(b, more, h) ==
    /\ hist' = h
    /\ content' = NoContent
    /\ IF b # <<>>
       THEN /\ cur' = Head(b)
            /\ buf' = Tail(b)
            /\ yielded' = Append(yielded, Head(b))
            /\ pc' = "fetch"
            /\ UNCHANGED cursor
       ELSE /\ cur' = 0
            /\ buf' = <<>>
            /\ UNCHANGED yielded
            /\ IF more THEN /\ pc' = "page"
                            /\ cursor' = cursor + 1
               ELSE /\ pc' = "final"
                    /\ UNCHANGED cursor

\* The poll loop after a poll answered (mediaItemsSet, pollInterval) and the
\* run decided to sleep `secs` seconds when the session is not ready.
Polled(mediaItemsSet, secs) ==
    IF poll_done(mediaItemsSet)
    THEN [pollSt EXCEPT !.polls = @ + 1, !.ready = mediaItemsSet]
    ELSE [pollSt EXCEPT !.polls = @ + 1, !.ready = mediaItemsSet, !.falses = @ + 1,
                        !.sleeps = @ + 1, !.sleepFor = secs]

\* main, lines 93-97: create the session, print the pickerUri.
picker_create ==
    /\ prog = "picker" /\ pc = "start"
    /\ \E http_ok \in BOOLEAN :
         /\ ev' = Event("create", IF http_ok THEN "ok" ELSE "SessionCreateError",
                         TRUE, FALSE, 0)
         /\ IF http_ok
            THEN /\ sess' = [sess EXCEPT !.created = TRUE, !.uriShown = TRUE]
                 /\ pc' = "poll"
                 /\ UNCHANGED status
            ELSE /\ pc' = "aborted"
                 /\ status' = "exception"
                 /\ UNCHANGED sess
    /\ UNCHANGED <<fixedVars, listVars, ledgerVars, botVars, pollSt, sent, okUploads>>
    /\ UNCHANGED <<sendVars, linkVars, raceVars, tokenVars>>

\* main, lines 100-107: one poll of the session.
picker_poll ==
    /\ prog = "picker" /\ pc = "poll"
    /\ \E http_ok \in BOOLEAN, mediaItemsSet \in BOOLEAN, interval \in PollIntervals :
         IF ~http_ok
         THEN /\ mediaItemsSet /\ interval.kind = "absent"
              /\ pc' = "aborted"
              /\ status' = "exception"
              /\ pollSt' = [pollSt EXCEPT !.polls = @ + 1]
              /\ ev' = Event("poll", "HTTPError", TRUE, FALSE, 0)
              /\ UNCHANGED cursor
         ELSE /\ mediaItemsSet \/ pollSt.falses < MaxPolls
              /\ ev' = Event("poll", "ok", TRUE, FALSE, interval)
              /\ mediaItemsSet => interval.kind = "absent"
              /\ pollSt' = Polled(mediaItemsSet, picker_poll_sleep(interval))
              /\ pc' = (IF poll_done(mediaItemsSet) THEN "page" ELSE "sleep")
              /\ cursor' = (IF poll_done(mediaItemsSet) THEN 1 ELSE cursor)
              /\ UNCHANGED status
    /\ UNCHANGED <<fixedVars, buf, hasNext, cur, content, yielded, hist, ledgerVars,
                   botVars, sess, sent, okUploads>>
    /\ UNCHANGED <<sendVars, linkVars, raceVars, tokenVars>>

\* main, line 107: time.sleep returns.
picker_wake ==
    /\ prog = "picker" /\ pc = "sleep"
    /\ pc' = "poll"
    /\ ev' = Event("wake", "ok", FALSE, FALSE, 0)
    /\ pollSt' = [pollSt EXCEPT !.sleepFor = 0]
    /\ UNCHANGED <<fixedVars, listVars, ledgerVars, botVars, sess, sent, status, okUploads>>
    /\ UNCHANGED <<sendVars, linkVars, raceVars, tokenVars>>

\* list_picked, lines 45-55: request the page the token in hand asks for.
picker_list ==
    /\ prog = "picker" /\ pc = "page"
    /\ \E code \in {200, 400, 412, 500} :
         /\ ev' = Event("list", IF transient(code) THEN "retry"
                                ELSE IF code # 200 THEN "HTTPError" ELSE "ok",
                         TRUE, FALSE, code)
         /\ IF transient(code)
            THEN /\ sess' = [sess EXCEPT !.listed = TRUE]
                 /\ UNCHANGED <<pc, status, listVars>>
            ELSE /\ sess' = [sess EXCEPT !.listed = TRUE]
                 /\ IF code # 200
                    THEN /\ pc' = "aborted"
                         /\ status' = "exception"
                         /\ UNCHANGED listVars
                    ELSE /\ hasNext' = (cursor < Len(pages))
                         /\ NextItem(pages[cursor], cursor < Len(pages), hist)
                         /\ UNCHANGED status
    /\ UNCHANGED <<fixedVars, ledgerVars, botVars, pollSt, sent, okUploads>>
    /\ UNCHANGED <<sendVars, linkVars, raceVars, tokenVars>>

\* main, line 113: dl_bytes; the except clause prints and the loop goes on.
picker_download ==
    /\ prog = "picker" /\ pc = "fetch"
    /\ \E baseUrl \in BOOLEAN, mime \in PipeMimes, size \in PipeSizes, http_ok \in BOOLEAN :
         IF baseUrl /\ mime # NoneMime /\ http_ok
         THEN /\ content' = Content(mime, size)
              /\ pc' = "upload"
              /\ hist' = [hist EXCEPT !.fetch = @ \cup {cur}]
              /\ ev' = Event("download", "ok", TRUE, FALSE, 0)
              /\ UNCHANGED <<cursor, buf, cur, yielded>>
         ELSE /\ size = Size(3 * 1024, 0)
              /\ ~baseUrl => (mime = <<>> /\ http_ok)
              /\ (baseUrl /\ mime = NoneMime) => http_ok
              /\ ev' = (IF ~baseUrl THEN Event("download", "NoDownloadUrl", FALSE, FALSE, 0)
                        ELSE IF mime = NoneMime
                        THEN Event("download", "AttributeError", FALSE, FALSE, 0)
                        ELSE Event("download", "DownloadError", TRUE, FALSE, 0))
              /\ NextItem(buf, hasNext, Failed([hist EXCEPT !.fetch = @ \cup {cur}], cur))
    /\ UNCHANGED <<fixedVars, hasNext, ledgerVars, botVars, waitVars, sent, status, okUploads>>
    /\ UNCHANGED <<sendVars, linkVars, raceVars, tokenVars>>

\* main, lines 114-116: tg_send, then the counter.
picker_send ==
    /\ prog = "picker" /\ pc = "upload"
    /\ \E resp \in TgResponses :
         LET r == picker_tg_send(content.mime, content.size, resp) IN
         /\ okUploads' = [okUploads EXCEPT ![cur] = @ + (IF Confirmed(r, resp) THEN 1 ELSE 0)]
         /\ ev' = Event("send", r.outcome, FALSE, FALSE, 0)
         /\ IF r.outcome = "ok"
            THEN /\ sent' = sent + 1
                 /\ NextItem(buf, hasNext, Uploaded(hist, cur, r, resp))
            ELSE /\ UNCHANGED sent
                 /\ NextItem(buf, hasNext, Failed(Uploaded(hist, cur, r, resp), cur))
    /\ UNCHANGED <<fixedVars, hasNext, ledgerVars, botVars, waitVars, status>>
    /\ UNCHANGED <<sendVars, linkVars, raceVars, tokenVars>>

\* main, lines 121-126: delete the session (errors are swallowed), print
\* the tally.
picker_finish ==
    /\ prog = "picker" /\ pc = "final"
    /\ pc' = "done"
    /\ ev' = Event("finish", "ok", FALSE, FALSE, 0)
    /\ status' = "tally"
    /\ UNCHANGED <<fixedVars, listVars, ledgerVars, botVars, waitVars, sent, okUploads>>
    /\ UNCHANGED <<sendVars, linkVars, raceVars, tokenVars>>

InitPicker ==
    /\ prog = "picker"
    /\ pc = "start"
    /\ run = 1
    /\ pages \in Listings
    /\ cursor = 0
    /\ buf = <<>>
    /\ hasNext = FALSE
    /\ cur = 0
    /\ content = NoContent
    /\ sent = 0
    /\ progressFile = <<>>
    /\ done_ids = {}
    /\ status = "none"
    /\ yielded = <<>>
    /\ hist = NoHist
    /\ okUploads = [i \in Ids |-> 0]
    /\ lostMarks = [i \in Ids |-> 0]
    /\ markedBefore = {}
    /\ channel = FALSE
    /\ iterToken = 0
    /\ sess = NoSession
    /\ pollSt = NoPolls
    /\ ev = NoEvent

NextPicker ==
    \/ picker_create
    \/ picker_poll
    \/ picker_wake
    \/ picker_list
    \/ picker_download
    \/ picker_send
    \/ picker_finish

----------------------------------------------------------------------------
(* bot.py: picker_cmd and its worker *)

PROGRESS_EVERY == 10    \* a progress message every so many items sent

\* worker, line 338: int(pollInterval), 3 when the server suggests none;
\* int raises on a string that is no integer literal.
worker_poll_sleep(x) ==
    [ok |-> x.kind # "duration",
     v |-> IF x.kind = "absent" THEN DEFAULT_POLL ELSE x.v]

\* worker, lines 351-352: an exception reaches the outer handler, which
\* reports the failure; the report itself may fail, and then the thread ends
\* without a word.
JobFailed(reported) ==
    /\ pc' = "aborted"
    /\ status' = (IF reported THEN "failed" ELSE "silent")

\* worker, lines 348-349: an exception in the loop body reaches the inner
\* handler, which tells the user; when that message fails the exception
\* leaves the loop.
ItemSkipped(told, reported, h) ==
    IF told
    THEN /\ reported
         /\ NextItem(buf, hasNext, h)
         /\ UNCHANGED status
    ELSE /\ JobFailed(reported)
         /\ hist' = h
         /\ UNCHANGED <<cursor, buf, cur, content, yielded>>

\* A request that carries access token tok after the guard call g of the same
\* step (NoGuard when the step calls no guard): the token is stale when it is
\* not the access token table users holds after g, or that token's expiry
\* has passed.
NoGuard == GuardResult("none", 0, FALSE, 0, NoUser)

Stale(tok, g) ==
    LET u == IF g.saved # NoUser THEN g.saved ELSE users IN
    tok # u.access_token \/ ~(now < u.expiry)

\* The answers of the OAuth server a job meets: a failure, or an access
\* token that lasts MARGIN beyond the safety margin, without a new refresh
\* token.
WorkerResponses(u, t, iss) ==
    { x \in GuardResponses(u, t, iss) :
        \/ ~x.http_ok
        \/ /\ x.access_token # 0 /\ ~x.has_refresh
           /\ x.has_expires /\ x.expires_in = 2 * MARGIN }

\* The rows of table users the OAuth callback can have written before the
\* command arrives at time 0: none, one whose token has reached its stored
\* expiry, or one whose token is good for MARGIN more.
BotUsers ==
    {NoUser} \cup
    { save_tokens(1, tk, "user@example.com", 0) :
        tk \in { x \in TokenResponses(0) :
                   /\ x.http_ok /\ x.access_token # 0 /\ x.has_expires } }

\* picker_cmd, lines 307-354: check user and channel, get a token, create
\* the session, show the pickerUri, start the worker.
picker_cmd ==
    /\ prog = "bot" /\ pc = "idle"
    /\ IF users = NoUser \/ ~channel
       THEN /\ pc' = "rejected"
            /\ status' = (IF users = NoUser THEN "connect first" ELSE "setchannel first")
            /\ ev' = Event("create", IF users = NoUser THEN "NoUser" ELSE "NoChannel",
                            FALSE, FALSE, 0)
            /\ UNCHANGED <<sess, tokenVars>>
       ELSE \E resp \in WorkerResponses(users, now, issued), http_ok \in BOOLEAN :
              LET g == get_access_token(users, now, resp) IN
              /\ GuardStore(users, resp, g)
              /\ UNCHANGED <<now, tokCall>>
              /\ ev' = (IF g.outcome # "return"
                        THEN Event("create", g.outcome, FALSE, FALSE, 0)
                        ELSE Event("create", IF http_ok THEN "ok" ELSE "SessionCreateError",
                                   TRUE, FALSE, 0))
              /\ IF g.outcome = "return" /\ http_ok
                 THEN /\ sess' = [sess EXCEPT !.created = TRUE, !.uriShown = TRUE]
                      /\ pc' = "poll"
                      /\ UNCHANGED status
                 ELSE /\ (g.outcome # "return") => http_ok
                      /\ pc' = "rejected"
                      /\ status' = "create failed"
                      /\ UNCHANGED sess
    /\ UNCHANGED <<fixedVars, listVars, ledgerVars, botVars, pollSt, sent, okUploads>>
    /\ UNCHANGED <<sendVars, linkVars, raceVars>>

\* worker, lines 335-338: one poll of the session.
worker_poll ==
    /\ prog = "bot" /\ pc = "poll"
    /\ \E resp \in WorkerResponses(users, now, issued), http_ok \in BOOLEAN,
          mediaItemsSet \in BOOLEAN, interval \in PollIntervals, reported \in BOOLEAN :
         LET g == get_access_token(users, now, resp)
             sl == worker_poll_sleep(interval)
         IN /\ GuardStore(users, resp, g)
            /\ UNCHANGED <<now, tokCall>>
            /\ IF g.outcome # "return"
               THEN /\ http_ok /\ mediaItemsSet /\ interval.kind = "absent"
                    /\ ev' = Event("poll", g.outcome, FALSE, FALSE, 0)
                    /\ JobFailed(reported)
                    /\ UNCHANGED pollSt
               ELSE IF ~http_ok
               THEN /\ mediaItemsSet /\ interval.kind = "absent"
                    /\ ev' = Event("poll", "HTTPError", TRUE, Stale(g.ret, g), 0)
                    /\ JobFailed(reported)
                    /\ pollSt' = [pollSt EXCEPT !.polls = @ + 1]
               ELSE IF poll_done(mediaItemsSet)
               THEN /\ interval.kind = "absent" /\ reported
                    /\ ev' = Event("poll", "ok", TRUE, Stale(g.ret, g), interval)
                    /\ pollSt' = Polled(mediaItemsSet, 0)
                    /\ pc' = "enum"
                    /\ UNCHANGED status
               ELSE /\ pollSt.falses < MaxPolls
                    /\ ev' = Event("poll", IF sl.ok THEN "ok" ELSE "ValueError",
                                    TRUE, Stale(g.ret, g), interval)
                    /\ IF sl.ok
                       THEN /\ reported
                            /\ pollSt' = Polled(mediaItemsSet, sl.v)
                            /\ pc' = "sleep"
                            /\ UNCHANGED status
                       ELSE /\ pollSt' = [pollSt EXCEPT !.polls = @ + 1, !.falses = @ + 1,
                                                        !.ready = FALSE]
                            /\ JobFailed(reported)
    /\ UNCHANGED <<fixedVars, listVars, ledgerVars, botVars, sess, sent, okUploads>>
    /\ UNCHANGED <<sendVars, linkVars, raceVars>>

\* worker, line 338: time.sleep returns.
worker_wake ==
    /\ prog = "bot" /\ pc = "sleep"
    /\ pc' = "poll"
    /\ ev' = Event("wake", "ok", FALSE, FALSE, 0)
    /\ pollSt' = [pollSt EXCEPT !.sleepFor = 0]
    /\ UNCHANGED <<fixedVars, listVars, ledgerVars, botVars, sess, sent, status, okUploads>>
    /\ UNCHANGED <<sendVars, linkVars, raceVars, tokenVars>>

\* worker, lines 339-340: sent = 0, and iter_picked is called with a token
\* from the guard.
worker_enum ==
    /\ prog = "bot" /\ pc = "enum"
    /\ \E resp \in WorkerResponses(users, now, issued), reported \in BOOLEAN :
         LET g == get_access_token(users, now, resp) IN
         /\ GuardStore(users, resp, g)
         /\ UNCHANGED <<now, tokCall>>
         /\ ev' = Event("enum", IF g.outcome = "return" THEN "ok" ELSE g.outcome,
                         FALSE, FALSE, 0)
         /\ IF g.outcome = "return"
            THEN /\ reported
                 /\ iterToken' = g.ret
                 /\ pc' = "page"
                 /\ cursor' = 1
                 /\ sent' = 0
                 /\ UNCHANGED status
            ELSE /\ JobFailed(reported)
                 /\ sent' = 0
                 /\ UNCHANGED <<iterToken, cursor>>
    /\ UNCHANGED <<fixedVars, buf, hasNext, cur, content, yielded, hist, ledgerVars,
                   channel, waitVars, okUploads>>
    /\ UNCHANGED <<sendVars, linkVars, raceVars>>

\* iter_picked, lines 195-206: request the page the token in hand asks for,
\* with the access token iter_picked was called with.
worker_list ==
    /\ prog = "bot" /\ pc = "page"
    /\ \E code \in {200, 400, 412, 500}, reported \in BOOLEAN :
         /\ ev' = Event("list", IF transient(code) THEN "retry"
                                ELSE IF code # 200 THEN "HTTPError" ELSE "ok",
                         TRUE, Stale(iterToken, NoGuard), code)
         /\ IF transient(code)
            THEN /\ reported
                 /\ sess' = [sess EXCEPT !.listed = TRUE]
                 /\ UNCHANGED <<pc, status, listVars>>
            ELSE /\ sess' = [sess EXCEPT !.listed = TRUE]
                 /\ IF code # 200
                    THEN /\ JobFailed(reported)
                         /\ UNCHANGED listVars
                    ELSE /\ reported
                         /\ hasNext' = (cursor < Len(pages))
                         /\ NextItem(pages[cursor], cursor < Len(pages), hist)
                         /\ UNCHANGED status
    /\ UNCHANGED <<fixedVars, ledgerVars, botVars, pollSt, sent, okUploads>>
    /\ UNCHANGED <<sendVars, linkVars, raceVars, tokenVars>>

\* worker, line 342: download_item with a token from the guard.
worker_download ==
    /\ prog = "bot" /\ pc = "fetch"
    /\ \E resp \in WorkerResponses(users, now, issued), baseUrl \in BOOLEAN,
          mime \in PipeMimes, size \in PipeSizes, http_ok \in BOOLEAN,
          told \in BOOLEAN, reported \in BOOLEAN :
         LET g == get_access_token(users, now, resp) IN
         /\ GuardStore(users, resp, g)
         /\ UNCHANGED <<now, tokCall>>
         /\ ev' = (IF g.outcome # "return" THEN Event("download", g.outcome, FALSE, FALSE, 0)
                   ELSE IF ~baseUrl THEN Event("download", "NoDownloadUrl", FALSE, FALSE, 0)
                   ELSE Event("download", IF http_ok THEN "ok" ELSE "DownloadError",
                              TRUE, Stale(g.ret, g), 0))
         /\ IF g.outcome = "return" /\ baseUrl /\ http_ok
            THEN /\ told /\ reported
                 /\ content' = Content(OrElse(mime, <<>>), size)
                 /\ pc' = "upload"
                 /\ hist' = [hist EXCEPT !.fetch = @ \cup {cur}]
                 /\ UNCHANGED <<cursor, buf, cur, yielded, status>>
            ELSE /\ size = Size(3 * 1024, 0) /\ mime = <<>>
                 /\ (g.outcome # "return") => (baseUrl /\ http_ok)
                 /\ ~baseUrl => http_ok
                 /\ ItemSkipped(told, reported,
                                Failed([hist EXCEPT !.fetch = @ \cup {cur}], cur))
    /\ UNCHANGED <<fixedVars, hasNext, ledgerVars, botVars, waitVars, sent, okUploads>>
    /\ UNCHANGED <<sendVars, linkVars, raceVars>>

\* worker, lines 343-347: send_media_auto, the counter, the progress message.
worker_send ==
    /\ prog = "bot" /\ pc = "upload"
    /\ \E resp \in TgResponses, progress \in BOOLEAN, told \in BOOLEAN, reported \in BOOLEAN :
         LET r == send_media_auto(content.mime, content.size, resp) IN
         /\ okUploads' = [okUploads EXCEPT ![cur] = @ + (IF Confirmed(r, resp) THEN 1 ELSE 0)]
         /\ ev' = Event("send", IF r.outcome = "ok" /\ (sent + 1) % PROGRESS_EVERY = 0 /\ ~progress
                                THEN "ProgressError" ELSE r.outcome,
                         FALSE, FALSE, 0)
         /\ IF r.outcome = "ok"
            THEN /\ sent' = sent + 1
                 /\ IF (sent + 1) % PROGRESS_EVERY = 0 /\ ~progress
                    THEN ItemSkipped(told, reported, Uploaded(hist, cur, r, resp))
                    ELSE /\ told /\ reported
                         /\ ((sent + 1) % PROGRESS_EVERY # 0) => progress
                         /\ NextItem(buf, hasNext, Uploaded(hist, cur, r, resp))
                         /\ UNCHANGED status
            ELSE /\ progress
                 /\ UNCHANGED sent
                 /\ ItemSkipped(told, reported, Failed(Uploaded(hist, cur, r, resp), cur))
    /\ UNCHANGED <<fixedVars, hasNext, ledgerVars, botVars, waitVars>>
    /\ UNCHANGED <<sendVars, linkVars, raceVars, tokenVars>>

\* worker, line 350: the final tally; when the message fails the outer
\* handler reports a failed job.
worker_finish ==
    /\ prog = "bot" /\ pc = "final"
    /\ \E told \in BOOLEAN, reported \in BOOLEAN :
         /\ ev' = Event("finish", IF told THEN "ok" ELSE "TallyError", FALSE, FALSE, 0)
         /\ IF told
            THEN /\ reported
                 /\ pc' = "done"
                 /\ status' = "tally"
            ELSE JobFailed(reported)
    /\ UNCHANGED <<fixedVars, listVars, ledgerVars, botVars, waitVars, sent, okUploads>>
    /\ UNCHANGED <<sendVars, linkVars, raceVars, tokenVars>>

\* Time passes while the job sleeps between polls or waits for a page. It is
\* followed until the stored token has expired: get_access_token compares
\* the time with the expiry only, so more time changes nothing a job sees.
BotTick ==
    /\ prog = "bot"
    /\ pc \in {"sleep", "page"}
    /\ now < users.expiry
    /\ Tick

InitBot ==
    /\ prog = "bot"
    /\ pc = "idle"
    /\ run = 1
    /\ pages \in Listings
    /\ cursor = 0
    /\ buf = <<>>
    /\ hasNext = FALSE
    /\ cur = 0
    /\ content = NoContent
    /\ sent = 0
    /\ progressFile = <<>>
    /\ done_ids = {}
    /\ status = "none"
    /\ yielded = <<>>
    /\ hist = NoHist
    /\ okUploads = [i \in Ids |-> 0]
    /\ lostMarks = [i \in Ids |-> 0]
    /\ markedBefore = {}
    /\ channel \in BOOLEAN
    /\ iterToken = 0
    /\ sess = NoSession
    /\ pollSt = NoPolls
    /\ ev = NoEvent
    /\ now = 0
    /\ users \in BotUsers
    /\ issued = (IF users = NoUser THEN 0 ELSE 1)
    /\ tokCall = NoCall
    /\ lastRT = (IF users = NoUser THEN 0 ELSE users.refresh_token)
    /\ omitted = 0

NextBot ==
    \/ picker_cmd
    \/ worker_poll
    \/ worker_wake
    \/ worker_enum
    \/ worker_list
    \/ worker_download
    \/ worker_send
    \/ worker_finish
    \/ BotTick

----------------------------------------------------------------------------
(* Spec: one of the pipelines runs *)

Init ==
    /\ sendIn = NoInput
    /\ sendOut = NoResult
    /\ RaceIdle
    /\ LinkIdle
    /\ \/ TokenIdle /\ (InitExport \/ InitPicker)
       \/ InitBot

Next == NextExport \/ NextPicker \/ NextBot

Spec == Init /\ [][Next]_vars

\* One run of one of the programs, from its start to its end: the export is
\* neither killed nor started again.
NextOneRun ==
    \/ photos_start \/ photos_list_page \/ photos_download
    \/ photos_send \/ photos_mark \/ photos_finish
    \/ NextPicker
    \/ NextBot

SpecOneRun == Init /\ [][NextOneRun]_vars

----------------------------------------------------------------------------
(* The pipelines on their own *)

InitExportRun == sendIn = NoInput /\ sendOut = NoResult /\ RaceIdle /\ LinkIdle /\ TokenIdle /\ InitExport

SpecExport == InitExportRun /\ [][NextExport]_vars

InitPickerRun ==
    /\ sendIn = NoInput
    /\ sendOut = NoResult
    /\ RaceIdle
    /\ LinkIdle
    /\ \/ TokenIdle /\ InitPicker
       \/ InitBot

NextPickerRun == NextPicker \/ NextBot

SpecPicker == InitPickerRun /\ [][NextPickerRun]_vars

\* A picker run under fairness: the step the run is at is eventually taken,
\* and a page request is not answered 400 or 412 for ever. Time may pass or
\* not.
Progress ==
    \/ picker_create \/ picker_poll \/ picker_wake
    \/ (picker_list /\ ev'.cause # "retry")
    \/ picker_download \/ picker_send \/ picker_finish
    \/ picker_cmd \/ worker_poll \/ worker_wake \/ worker_enum
    \/ (worker_list /\ ev'.cause # "retry")
    \/ worker_download \/ worker_send \/ worker_finish

SpecLive == SpecPicker /\ WF_vars(Progress)

----------------------------------------------------------------------------
(* The upload operation of each program *)

Progs == {"bot", "picker", "export"}

Upload(p, mime, size, resp) ==
    CASE p = "bot" -> send_media_auto(mime, size, resp)
      [] p = "picker" -> picker_tg_send(mime, size, resp)
      [] p = "export" -> send_to_telegram(mime, size, resp)

----------------------------------------------------------------------------
(* SpecSend: an upload operation applied to one input *)

SendInputs == [prog : Progs, mime : Mimes, size : Sizes, resp : TgResponses]

InitSend ==
    /\ sendIn \in SendInputs
    /\ sendOut = NoResult
    /\ RaceIdle
    /\ LinkIdle
    /\ TokenIdle
    /\ PipeIdle

DoSend ==
    /\ sendOut = NoResult
    /\ sendOut' = Upload(sendIn.prog, sendIn.mime, sendIn.size, sendIn.resp)
    /\ UNCHANGED <<sendIn, raceVars, linkVars, tokenVars, pipeVars>>

NextSend == DoSend

SpecSend == InitSend /\ [][NextSend]_vars

----------------------------------------------------------------------------
(* Claims *)

\* C1: an id is appended to the ledger only after the upload of that item
\* was confirmed (200 and ok) in the same run; in every state, also after a
\* crash, the ledger holds no id without a confirmed upload.
C1_MarkedOnlyAfterConfirmedUpload ==
    /\ hist.mark \subseteq hist.confirmed
    /\ \A i \in Ids : Lines(progressFile, i) <= okUploads[i]
    /\ \A i \in load_done_ids(progressFile) \cup markedBefore \cup hist.mark :
           okUploads[i] >= 1

\* C1, witness: after a crash between an upload and its record, a later run
\* has recorded an item, and the item of the crash is not in the ledger.
C1_Witness ==
    /\ run >= 2
    /\ hist.mark # {}
    /\ \E i \in Ids : lostMarks[i] >= 1 /\ i \notin load_done_ids(progressFile)

C3_ItemFailureNeverAborts ==
    [][(pc \in {"fetch", "upload"} /\ hist'.failed # hist.failed)
          => pc' \in {"fetch", "page", "final"}]_vars

\* C4: every upload operation fails a payload larger than 2 GiB with
\* PayloadTooLarge and sends no request to the messaging API.
C4_OversizeNeverSent ==
    (sendOut # NoResult /\ SizeGT(sendIn.size, FILE_MAX)) =>
        (sendOut.outcome = "PayloadTooLarge" /\ sendOut.requests = <<>>)

\* C5: every upload of a MIME type starting with image/ goes to sendPhoto
\* when its size is at most 10 MiB, and to sendDocument when it is larger
\* (and at most 2 GiB).
C5_ImageRoutedBySize ==
    (/\ sendOut # NoResult
     /\ sendIn.mime # NoneMime
     /\ StartsWith(sendIn.mime, IMAGE_PREFIX)
     /\ SizeLE(sendIn.size, FILE_MAX)) =>
        /\ Len(sendOut.requests) = 1
        /\ sendOut.requests[1].method =
             (IF SizeLE(sendIn.size, PHOTO_MAX) THEN "sendPhoto" ELSE "sendDocument")

\* C6: get_access_token returns the stored token, unchanged and without a
\* refresh, only when now < expiry and an access token is stored; for a
\* credential with expiry <= now or no access token it fails, or sends a
\* refresh exchange and returns the access token that exchange issued.
C6_NeverReturnsExpired ==
    tokCall # NoCall =>
        LET u == tokCall.u IN
        /\ tokCall.outcome = "return" =>
             \/ /\ ~tokCall.refreshed
                /\ tokCall.at < u.expiry
                /\ u.access_token # 0
                /\ tokCall.ret = u.access_token
                /\ tokCall.saved = NoUser
             \/ /\ tokCall.refreshed
                /\ tokCall.resp.http_ok
                /\ tokCall.ret = tokCall.issuedBefore + 1
                /\ tokCall.ret = tokCall.resp.access_token
                /\ tokCall.ret # u.access_token
                /\ tokCall.saved # NoUser
                /\ tokCall.saved.access_token = tokCall.ret
        /\ (u # NoUser /\ (u.expiry <= tokCall.at \/ u.access_token = 0)) =>
             (tokCall.refreshed \/ tokCall.outcome # "return")

\* C6, witness: a stored token whose expiry is exactly now was refreshed and
\* the new token returned.
C6_Witness ==
    /\ tokCall # NoCall
    /\ tokCall.outcome = "return"
    /\ tokCall.refreshed
    /\ tokCall.u.access_token # 0
    /\ tokCall.u.expiry = tokCall.at

\* C7: a refresh whose response omits refresh_token saves a row that keeps
\* the stored refresh token, the user's id and the email, and takes access
\* token, token type and expiry from the response; the stored refresh token
\* is always the one the last exchange that carried one delivered.
C7_RefreshTokenPreserved ==
    /\ users # NoUser => users.refresh_token = lastRT
    /\ (tokCall # NoCall /\ tokCall.refreshed) => tokCall.sentRT = tokCall.u.refresh_token
    /\ (tokCall # NoCall /\ tokCall.saved # NoUser /\ ~tokCall.resp.has_refresh) =>
         /\ tokCall.saved.refresh_token = tokCall.u.refresh_token
         /\ tokCall.saved.refresh_token # 0
         /\ tokCall.saved.tg_id = tokCall.u.tg_id
         /\ tokCall.saved.email = tokCall.u.email
         /\ tokCall.saved.access_token = tokCall.resp.access_token
         /\ tokCall.saved.token_type = tokCall.resp.token_type
         /\ tokCall.saved.expiry =
              tokCall.at - MARGIN
              + (IF tokCall.resp.has_expires THEN tokCall.resp.expires_in
                 ELSE EXPIRES_DEFAULT)

\* C7, witness: two refreshes in a row omitted refresh_token, and the second
\* one still sent the refresh token the row held before the first.
C7_Witness ==
    /\ omitted >= 2
    /\ tokCall # NoCall
    /\ tokCall.refreshed
    /\ tokCall.saved # NoUser
    /\ users = tokCall.saved
    /\ users.refresh_token = lastRT
    /\ lastRT # 0

\* C8: the enumeration yields the items of all the pages, each once and in
\* page order, also when a page carries a next-page token and no items, and
\* it stops at the first response without a next-page token.
C8_EnumerationTotal ==
    pc \in {"final", "done"} =>
        /\ yielded = Flatten(pages)
        /\ cursor = Len(pages)
        /\ ~hasNext

\* C9: after k getSession responses with mediaItemsSet false the run has
\* slept k times; when enumeration begins the run has polled k + 1 times
\* and the last response was true; no mediaItems request is sent before a
\* poll has observed true, and the loop is not left for the enumeration
\* while the last observed value is false.
C9_PollsAndSleeps ==
    prog \in {"picker", "bot"} =>
        /\ pollSt.sleeps = pollSt.falses
        /\ pc \in {"enum", "page", "fetch", "upload", "final", "done"} =>
             /\ pollSt.ready
             /\ pollSt.polls = pollSt.falses + 1
        /\ sess.listed => pollSt.ready

\* The phases of a run as the claim lists them.
StrictPhase ==
    CASE pc \in {"idle", "start"} -> 0
      [] pc \in {"poll", "sleep"} -> (IF pollSt.polls = 0 THEN 1 ELSE 2)
      [] pc \in {"enum", "page"} -> 3
      [] pc \in {"fetch", "upload", "record"} -> 4
      [] OTHER -> 5

\* The phases of a run, page requests and the work on items forming one stage.
Phase ==
    CASE pc \in {"idle", "start"} -> 0
      [] pc \in {"poll", "sleep"} -> (IF pollSt.polls = 0 THEN 1 ELSE 2)
      [] pc \in {"enum", "page", "fetch", "upload", "record"} -> 3
      [] OTHER -> 4

\* What has happened before a step of a picker run: the session was created
\* and its pickerUri shown before a poll, a poll observed readiness before a
\* page request, and an item is fetched and uploaded after the page
\* response that yielded it.
HappensBefore ==
    prog \in {"picker", "bot"} =>
        /\ (pollSt.polls > 0 \/ pc \in {"poll", "sleep"}) => (sess.created /\ sess.uriShown)
        /\ sess.listed => (pollSt.ready /\ pollSt.polls > 0)
        /\ pc \in {"enum", "page", "fetch", "upload"} => pollSt.ready
        /\ yielded # <<>> => sess.listed
        /\ pc \in {"fetch", "upload"} => cur \in Range(yielded)
        /\ hist.fetch \cup hist.upload \subseteq Range(yielded)

\* C10, as claimed: the steps of a run are ordered, and the run moves Idle,
\* SessionCreated, AwaitingSelection, Enumerating, per-item Fetching and
\* Uploading, Finalized and never back to an earlier phase.
C10_PhasesNeverGoBack ==
    /\ []HappensBefore
    /\ [][run' = run => StrictPhase' >= StrictPhase]_vars

\* C10, amended: the steps of a run are ordered, and the run moves Idle,
\* SessionCreated, AwaitingSelection, then the stage in which page requests
\* and the fetch and upload of the items of each page alternate, then
\* Finalized, and never back to an earlier one of these stages.
C10_StagesNeverGoBack ==
    /\ []HappensBefore
    /\ [][run' = run => Phase' >= Phase]_vars

\* C10, witness: a run that slept between two polls has uploaded an item of
\* the first page and is about to request the second page.
C10_Witness ==
    /\ prog \in {"picker", "bot"}
    /\ pollSt.falses >= 1
    /\ pc = "page"
    /\ cursor = 2
    /\ hist.confirmed # {}

\* C11: in a bot run a failure of createSession, or AuthRequired raised by
\* the token guard at any step, is fatal: the run ends with that step and its
\* one failure report, no later item is fetched or uploaded, and no pickerUri
\* is shown after a failed creation.
C11_FatalErrorsEndTheRun ==
    (prog = "bot" /\ ev.cause \in {"AuthRequired", "SessionCreateError"}) =>
        /\ pc \in {"rejected", "aborted"}
        /\ status \in {"create failed", "failed", "silent"}
        /\ ev.op = "create" => ~sess.uriShown

\* C12: the fetch of an item without a base URL fails with NoDownloadUrl
\* before a download request is sent; the item is not uploaded, the sent
\* counter stays, the item counts as failed, and the run goes on to the next
\* item (or the next page, or the tally).
C12_NoDownloadUrlSkipsTheItem ==
    [][(pc = "fetch" /\ ev'.op = "download" /\ ev'.cause = "NoDownloadUrl") =>
          /\ ~ev'.request
          /\ cur \notin hist'.upload
          /\ cur \in hist'.failed
          /\ sent' = sent
          /\ pc' \in {"fetch", "page", "final"}]_vars

\* C13: the ledger is append-only and durable: an id whose mark_done has
\* returned is in what load_done_ids reads, in this run and in every later
\* one, whatever appends, restarts and crashes in the middle of an append
\* follow, and no step removes an id from what load_done_ids reads.
C13_LedgerDurable ==
    /\ [](markedBefore \cup hist.mark \subseteq load_done_ids(progressFile))
    /\ [][load_done_ids(progressFile) \subseteq load_done_ids(progressFile')]_vars

\* C14: whenever no token call is under way, table users holds the access
\* token and the refresh token of the latest successful exchange, whatever
\* the interleaving of the threads' reads, exchanges and saves.
C14_NoLostUpdate ==
    (\A p \in Threads : thr[p].at = "idle") =>
        /\ users.access_token = latest.access_token
        /\ users.refresh_token = latest.refresh_token

\* C15: in a run of the picker script or of the bot worker, no item that
\* the DoneSet holds is fetched or uploaded, and once the loop has left an
\* item whose upload was confirmed, the ledger holds the id of that item.
C15_PickerRunsUseTheDoneSet ==
    prog \in {"picker", "bot"} =>
        /\ (hist.fetch \cup hist.upload) \cap load_done_ids(progressFile) = {}
        /\ hist.confirmed \subseteq load_done_ids(progressFile)

\* C16: every request a run sends to the picker API (session poll,
\* mediaItems page request, item download) carries an access token that, at
\* the time of the request, has not expired and is the one table users holds.
C16_RequestsCarryACurrentToken ==
    (prog \in {"picker", "bot"} /\ ev.request /\ ev.op \in {"poll", "list", "download"}) =>
        ~ev.stale

\* C17: after a poll that found the session not ready, the run sleeps
\* max(2, p) seconds for a suggested integer p, and 3 seconds when the server
\* suggests nothing or something that is no integer; the suggestion never
\* fails the run.
C17_SleepsAtLeastTwoSeconds ==
    (/\ prog \in {"picker", "bot"}
     /\ ev.op = "poll" /\ ev.request /\ ev.cause \in {"ok", "ValueError"}
     /\ ~pollSt.ready) =>
        /\ ev.cause = "ok"
        /\ pc = "sleep"
        /\ pollSt.sleepFor =
              Max(MIN_POLL, IF ev.arg.kind = "int" THEN ev.arg.v ELSE DEFAULT_POLL)

\* C18: in a picker run, a 400 or 412 answer to a page request is retried:
\* the step yields no item, raises no error, and leaves the page token in
\* hand, so the same request is sent again; whatever 400/412 answers are met,
\* the items yielded are a prefix of the listing without repetition, and the
\* whole listing when the enumeration ends; any other error status aborts
\* the run.
C18_TransientAnswersAreRetried ==
    /\ [](prog \in {"picker", "bot"} =>
            /\ Len(yielded) <= Len(Flatten(pages))
            /\ yielded = SubSeq(Flatten(pages), 1, Len(yielded))
            /\ pc \in {"final", "done"} => yielded = Flatten(pages)
            /\ (ev.op = "list" /\ ev.arg \in {400, 412}) =>
                  (ev.cause = "retry" /\ pc = "page")
            /\ (ev.op = "list" /\ ev.arg \notin {200, 400, 412}) =>
                  (ev.cause = "HTTPError" /\ pc = "aborted"))
    /\ [][(/\ prog \in {"picker", "bot"} /\ pc = "page"
           /\ ev'.op = "list" /\ ev'.arg \in {400, 412}) =>
             UNCHANGED <<pc, cursor, buf, hasNext, cur, yielded, hist, sent, status>>]_vars

\* C18, witness: the request for the second page was answered 400 or 412
\* after items of the first page were yielded.
C18_Witness ==
    /\ prog \in {"picker", "bot"}
    /\ ev.op = "list" /\ ev.cause = "retry"
    /\ cursor = 2 /\ pc = "page"
    /\ yielded # <<>>

\* A run ended by an error of the run as a whole: a failed poll or page
\* request, a token the guard could not provide, or a final tally the
\* messaging API refused.
RunLevelError ==
    /\ pc = "aborted"
    /\ \/ ev.op \in {"poll", "enum", "list", "finish"} /\ ev.cause # "ValueError"
       \/ ev.cause \in {"AuthRequired", "HTTPError", "KeyError"}

\* C19: under fairness, a picker run whose session was created eventually
\* finishes with its final tally, whichever of its items fail to fetch or
\* upload, unless an error of the run as a whole ends it.
C19_EveryRunFinishes ==
    (prog \in {"picker", "bot"} /\ pc = "poll") ~>
        ((pc = "done" /\ status = "tally") \/ RunLevelError)

\* C20: a bot job whose worker has ended has told the user exactly one
\* terminal status, the final tally or the failure report, and the worker
\* takes no step after it.
C20_OneTerminalStatus ==
    /\ [](prog = "bot" =>
            /\ pc \in {"done", "aborted"} => status \in {"tally", "failed"}
            /\ status \in {"tally", "failed"} => pc \in {"done", "aborted"})
    /\ [][(prog = "bot" /\ status \in {"tally", "failed"}) =>
             UNCHANGED <<pc, status, sent, hist, yielded, pollSt, sess>>]_vars

\* C21: while a run is alive, its counter of sent items equals the number
\* of items of this run whose upload the messaging API confirmed (the item
\* whose upload has just returned and whose record is being written is
\* counted by the step that follows), whatever happens to the record or the
\* progress message after the upload.
C21_SentCountsConfirmedUploads ==
    (prog \in {"export", "picker", "bot"} /\ pc # "dead") =>
        sent = Cardinality(hist.confirmed \ (IF pc = "record" THEN {cur} ELSE {}))

\* C22: within one run an item is fetched at most once and uploaded at most
\* once: a fetch is attempted only for the item in hand, which has had no
\* attempt yet; an upload only for the item in hand, whose fetch succeeded
\* and which has had no upload; no item is yielded twice, and an item whose
\* fetch or upload failed is left, for the next one or for the end of the run;
\* a session, poll or page request that failed (other than a page request
\* answered 400 or 412) ends the run.
C22_OneAttemptPerItem ==
    /\ [](prog \in {"export", "picker", "bot"} =>
            /\ Cardinality(Range(yielded)) = Len(yielded)
            /\ hist.upload \subseteq hist.fetch
            /\ pc = "fetch" => cur \notin (hist.fetch \cup hist.upload \cup hist.failed)
            /\ pc = "upload" =>
                  /\ cur \in hist.fetch /\ content.fetched
                  /\ cur \notin (hist.upload \cup hist.failed)
            /\ (ev.op \in {"create", "poll", "list"} /\ ev.request
                  /\ ev.cause \notin {"ok", "retry"}) => pc \in {"rejected", "aborted"})
    /\ [][(prog \in {"export", "picker", "bot"} /\ run' = run) =>
             /\ hist'.fetch # hist.fetch =>
                   (pc = "fetch" /\ hist'.fetch = hist.fetch \cup {cur})
             /\ hist'.upload # hist.upload =>
                   (pc = "upload" /\ hist'.upload = hist.upload \cup {cur})
             /\ (cur # 0 /\ cur \in hist'.failed) =>
                   (cur' # cur \/ pc' \notin {"fetch", "upload"})]_vars

\* C22, witness: the fetch or the upload of an item failed, and the run is
\* at the upload of a later item.
C22_Witness ==
    /\ prog \in {"export", "picker", "bot"}
    /\ pc = "upload"
    /\ hist.failed # {}
    /\ cur \notin hist.failed

\* C23: send_media_auto, for a payload of at most 2 GiB, sends exactly one
\* request, to sendPhoto, sendVideo or sendDocument: to sendVideo when the
\* MIME type starts with video/, whatever the size, and to sendDocument when
\* the input is neither a video nor an image of at most 10 MiB, an absent or
\* empty MIME type included.
C23_DecisionTable ==
    (sendOut # NoResult /\ sendIn.prog = "bot" /\ SizeLE(sendIn.size, FILE_MAX)) =>
        LET m == IF sendIn.mime = NoneMime THEN <<>> ELSE sendIn.mime
            video == StartsWith(m, VIDEO_PREFIX)
            photo == StartsWith(m, IMAGE_PREFIX) /\ SizeLE(sendIn.size, PHOTO_MAX)
        IN /\ Len(sendOut.requests) = 1
           /\ sendOut.requests[1].method \in {"sendPhoto", "sendVideo", "sendDocument"}
           /\ video => sendOut.requests[1].method = "sendVideo"
           /\ (~video /\ ~photo) => sendOut.requests[1].method = "sendDocument"
           /\ sendOut.requests[1].size = sendIn.size

\* C23, witness: a video above 10 MiB was sent as a video, and an input
\* without MIME type as a document.
C23_Witness ==
    /\ sendOut # NoResult /\ sendIn.prog = "bot"
    /\ \/ /\ sendIn.mime = VIDEO_MP4
          /\ sendIn.size = FILE_MAX
          /\ sendOut.requests[1].method = "sendVideo"
       \/ /\ sendIn.mime = NoneMime
          /\ sendIn.size = PHOTO_MAX
          /\ sendOut.requests[1].method = "sendDocument"

\* C24: a '/link CODE' post binds its channel only to the one user the code
\* was shown to; a post whose code has no row (unknown, or consumed by an
\* earlier post) binds nothing; and a post consumes its code.
C24_CodeBindsItsUserOnce ==
    /\ [](post # NoPost =>
            /\ post.bound # 0 => post.shown = {post.bound}
            /\ post.shown = {} => post.bound = 0
            /\ post.code = UnknownCode => post.bound = 0)
    /\ [][post' # post =>
             /\ link_codes'[post'.code] = 0
             /\ link_codes[post'.code] = 0 => (post'.bound = 0 /\ channels' = channels)
             /\ post'.bound # 0 =>
                   channels' = [channels EXCEPT ![post'.bound] = post'.chat]]_vars

====
